---------------------------- MODULE Spec2Model ----------------------------
(***************************************************************************)
(* Model of src/main/flight/pid.c (Cleanflight rate controller).           *)
(*                                                                         *)
(* State: the file-scope and function-static variables of pid.c.  One      *)
(* action per entry point: pidResetErrorGyro, pidSetController and one     *)
(* controller cycle of pidMultiWiiRewrite or pidLuxFloat (whichever        *)
(* pid_controller points to).                                              *)
(*                                                                         *)
(* Numbers.  int32_t arithmetic is computed on integers; the inputs are    *)
(* chosen so that no int32 intermediate leaves the 32-bit range (TLC       *)
(* aborts on overflow, so a run that finishes has met none).  The int16_t  *)
(* store into axisPID and the int8_t store into horizonLevelStrength keep  *)
(* their width.  C '/' truncates toward zero (CDiv), '>>' on a signed      *)
(* value is the arithmetic shift gcc produces (ShiftR).  float values are  *)
(* exact rationals <<n, d>> in lowest terms with d > 0, so float rounding  *)
(* is not modelled; lrintf and the float-to-int conversions are.           *)
(***************************************************************************)
EXTENDS Integers, Sequences, FiniteSets, TLC

\* ------------------------------------------------------------------ bounds
\* Controller cycles in one behaviour of Spec.
MaxCycles == 2

\* --------------------------------------------------------------- constants
\* pid.c:290 GYRO_I_MAX (flight/pid.h), the windup limit before the << 13.
GYRO_I_MAX == 256
\* pid.c:114 and pid.c:237, the full-stick deflection.
FullStick == 500

\* common/axis.h indices, as used at pid.c:75-77.
ROLL == 0
PITCH == 1
YAW == 2
Axes == {ROLL, PITCH, YAW}

Vec3(r, p, y) == [a \in Axes |-> IF a = ROLL THEN r ELSE IF a = PITCH THEN p ELSE y]

\* ------------------------------------------------------- integer helpers
Pow2(n) == 2 ^ n

ABS(x) == IF x < 0 THEN -x ELSE x

\* C integer division: truncation toward zero.
CDiv(a, b) ==
    IF (a >= 0) = (b > 0) THEN ABS(a) \div ABS(b) ELSE -(ABS(a) \div ABS(b))

\* x >> n on a signed int: arithmetic shift (floor).
ShiftR(x, n) == x \div Pow2(n)

constrain(amt, low, high) ==
    IF amt < low THEN low ELSE IF amt > high THEN high ELSE amt

\* Conversion to a signed integer of w bits (two's complement wrap).
ToSigned(x, w) ==
    LET m == x % Pow2(w)
    IN  IF m >= Pow2(w - 1) THEN m - Pow2(w) ELSE m

ToInt16(x) == ToSigned(x, 16)
ToInt8(x) == ToSigned(x, 8)

\* -------------------------------------------------- float (rational) helpers
RECURSIVE GCD(_, _)
GCD(a, b) == IF b = 0 THEN a ELSE GCD(b, a % b)

Rat(n, d) ==
    LET s == IF d < 0 THEN -1 ELSE 1
        g == GCD(ABS(n), ABS(d))
    IN  <<(s * n) \div g, (s * d) \div g>>

F(i) == <<i, 1>>
FZero == <<0, 1>>

FAdd(a, b) ==
    LET g == GCD(a[2], b[2])
    IN  Rat(a[1] * (b[2] \div g) + b[1] * (a[2] \div g), (a[2] \div g) * b[2])

FNeg(a) == <<-a[1], a[2]>>
FSub(a, b) == FAdd(a, FNeg(b))

FMul(a, b) ==
    LET g1 == GCD(ABS(a[1]), b[2])
        g2 == GCD(ABS(b[1]), a[2])
    IN  Rat((a[1] \div g1) * (b[1] \div g2), (a[2] \div g2) * (b[2] \div g1))

\* a / b for b # 0.
FDiv(a, b) == FMul(a, Rat(b[2], b[1]))

FLess(a, b) == FSub(a, b)[1] < 0

constrainf(amt, low, high) ==
    IF FLess(amt, low) THEN low ELSE IF FLess(high, amt) THEN high ELSE amt

\* lrintf: round to nearest, ties to even.
lrintf(a) ==
    LET f == a[1] \div a[2]
        r == a[1] - f * a[2]
    IN  IF 2 * r < a[2] THEN f
        ELSE IF 2 * r > a[2] THEN f + 1
        ELSE IF f % 2 = 0 THEN f ELSE f + 1

\* (int32_t) of a float: truncation toward zero.
FToInt(a) == CDiv(a[1], a[2])

\* ------------------------------------------------ low-pass filter primitive
\* common/filter.c is not part of the sources: a single-pole IIR filter with
\* per-instance state, state' = state + dT / (RC + dT) * (input - state),
\* RC = 1 / (2 * pi * f_cut), pi taken as 22/7.  The result is the new state.
filterApplyPt1(input, state, f_cut, dT) ==
    LET RC == Rat(7, 44 * f_cut)
        k == FDiv(dT, FAdd(RC, dT))
    IN  FAdd(state, FMul(k, FSub(input, state)))

\* ------------------------------------------------------- horizon strength
\* pid.c:229-234 and pid.c:106-111: the larger of the two stick deflections.
MostDeflectedPos(stickPosAil, stickPosEle) ==
    IF ABS(stickPosAil) > ABS(stickPosEle) THEN ABS(stickPosAil) ELSE ABS(stickPosEle)

\* pid.c:237-241 (integer variant); sensitivity is D8[PIDLEVEL].
HorizonStrengthMW_noSensitivity(mostDeflectedPos, D8_LEVEL) ==
    ToInt8(CDiv(FullStick - mostDeflectedPos, 5))

HorizonStrengthMW(mostDeflectedPos, D8_LEVEL) ==
    LET h == ToInt8(CDiv(FullStick - mostDeflectedPos, 5))
    IN  ToInt8(constrain(
            CDiv((10 * (h - 100)) * CDiv(10 * D8_LEVEL, 80), 100) + 100, 0, 100))

\* pid.c:114-119 (float variant); H_sensitivity is an 8-bit integer of the
\* profile, so 100 / H_sensitivity is an integer division.
HorizonStrengthLux_noZeroCheck(mostDeflectedPos, H_sensitivity) ==
    LET h == Rat(FullStick - mostDeflectedPos, FullStick)
        q == IF H_sensitivity = 0 THEN 0 ELSE CDiv(100, H_sensitivity)
    IN  constrainf(FAdd(FMul(FSub(h, F(1)), F(q)), F(1)), FZero, F(1))

HorizonStrengthLux(mostDeflectedPos, H_sensitivity) ==
    LET h == Rat(FullStick - mostDeflectedPos, FullStick)
    IN  IF H_sensitivity = 0 THEN FZero
        ELSE constrainf(
                 FAdd(FMul(FSub(h, F(1)), F(CDiv(100, H_sensitivity))), F(1)),
                 FZero, F(1))

\* ------------------------------------------------- integer variant, pieces
\* pid.c:249-265: the desired rate of one axis.
AngleRateMW(axis, in, horizonLevelStrength) ==
    IF axis = YAW
    THEN ShiftR((in.rates[axis] + 27) * in.rcCommand[YAW], 5)
    ELSE LET errorAngle ==
                 constrain(2 * in.rcCommand[axis], -in.max_angle_inclination,
                           in.max_angle_inclination) - in.attitude[axis]
         IN  IF ~in.angleMode
             THEN LET rateTmp == ShiftR((in.rates[axis] + 27) * in.rcCommand[axis], 4)
                  IN  IF in.horizonMode
                      THEN rateTmp
                           + ShiftR(CDiv(errorAngle * in.I8_LEVEL * horizonLevelStrength,
                                         100), 4)
                      ELSE rateTmp
             ELSE ShiftR(errorAngle * in.P8_LEVEL, 4)

\* pid.c:271
RateErrorMW(axis, in, horizonLevelStrength) ==
    AngleRateMW(axis, in, horizonLevelStrength) - CDiv(in.gyroADC[axis], 4)

\* pid.c:274, before the optional filter.
PTermMW(RateError, P8, weight) == ShiftR(CDiv(RateError * P8 * weight, 100), 7)

\* pid.c:290: the windup clamp of the integer accumulator.
WindupLimitMW == GYRO_I_MAX * Pow2(13)

WindupClampMW_none(acc) == acc

WindupClampMW(acc) == constrain(acc, -WindupLimitMW, WindupLimitMW)

\* pid.c:286-290: accumulate, then clamp.
IntegrateMW(acc, RateError, cycleTime, I8) ==
    WindupClampMW(acc + ShiftR(RateError * cycleTime, 11) * I8)

\* pid.c:291
ITermMW(acc) == ShiftR(acc, 13)

\* pid.c:299: the divisor of the derivative rescaling.
DeltaDivisorMW_shift5(cycleTime) == ShiftR(cycleTime, 5)

DeltaDivisorMW(cycleTime) == ShiftR(cycleTime, 4)

\* pid.c:299: quot is (uint16_t) 0xFFFF / (cycleTime >> 4).
ScaleDeltaMW(delta, quot) == ShiftR(delta * quot, 6)

\* pid.c:310
DTermMW_averaged(deltaSum, D8, weight) ==
    ShiftR(CDiv(CDiv(deltaSum, 3) * D8 * weight, 100), 8)

DTermMW(deltaSum, D8, weight) == ShiftR(CDiv(deltaSum * D8 * weight, 100), 8)

\* pid.c:245-326: one pass of the axis loop.  quot is the quotient the
\* division at pid.c:299 produced.  The result holds the values written to
\* the persistent state and the per-axis terms.
AxisMW(axis, in, hls, quot, acc, lastErr, d1, d2, pState, dState) ==
    LET RateError == RateErrorMW(axis, in, hls)
        PTermRaw == PTermMW(RateError, in.P8[axis], in.PIDweight[axis])
        pNew == IF in.pterm_cut_hz # 0
                THEN filterApplyPt1(F(PTermRaw), pState, in.pterm_cut_hz, in.dT)
                ELSE pState
        PTerm == IF in.pterm_cut_hz # 0 THEN FToInt(pNew) ELSE PTermRaw
        accNew == IntegrateMW(acc, RateError, in.cycleTime, in.I8[axis])
        ITerm == ITermMW(accNew)
        delta == ScaleDeltaMW(RateError - lastErr, quot)
        sumRaw == d1 + d2 + delta
        dNew == IF in.dterm_cut_hz # 0
                THEN filterApplyPt1(F(sumRaw), dState, in.dterm_cut_hz, in.dT)
                ELSE dState
        deltaSum == IF in.dterm_cut_hz # 0 THEN FToInt(dNew) ELSE sumRaw
        DTerm == DTermMW(deltaSum, in.D8[axis], in.PIDweight[axis])
    IN  [RateError |-> RateError, PTerm |-> PTerm, ITerm |-> ITerm, DTerm |-> DTerm,
         errorGyroI |-> accNew, lastError |-> RateError,
         delta |-> delta, deltaSum |-> deltaSum,
         PTermState |-> pNew, DTermState |-> dNew,
         axisPID |-> ToInt16(PTerm + ITerm + DTerm)]

\* --------------------------------------------------- float variant, pieces
\* pid.c:127-146: the desired rate of one axis.
AngleRateLux(axis, in, horizonLevelStrength) ==
    IF axis = YAW
    THEN Rat((in.rates[axis] + 10) * in.rcCommand[YAW], 50)
    ELSE LET errorAngle ==
                 Rat(constrain(in.rcCommand[axis], -in.max_angle_inclination,
                               in.max_angle_inclination) - in.attitude[axis], 10)
         IN  IF in.angleMode
             THEN FMul(errorAngle, in.A_level)
             ELSE LET rateTmp == Rat((in.rates[axis] + 20) * in.rcCommand[axis], 50)
                  IN  IF in.horizonMode
                      THEN FAdd(rateTmp,
                                FMul(FMul(errorAngle, in.H_level), horizonLevelStrength))
                      ELSE rateTmp

\* pid.c:148-154
RateErrorLux(axis, in, horizonLevelStrength) ==
    FSub(AngleRateLux(axis, in, horizonLevelStrength),
         FMul(F(in.gyroADC[axis]), in.gyroScale))

\* pid.c:157, before the optional filter.
PTermLux(RateError, P_f, weight) == FDiv(FMul(FMul(RateError, P_f), F(weight)), F(100))

\* pid.c:165: accumulate and clamp to +-250.
WindupClampLux(acc) == constrainf(acc, F(-250), F(250))

IntegrateLux(acc, RateError, dT, I_f) ==
    WindupClampLux(FAdd(acc, FMul(FMul(FMul(RateError, dT), I_f), F(10))))

\* pid.c:188
DTermLux(deltaSum, D_f, weight) ==
    constrainf(FDiv(FMul(FMul(FDiv(deltaSum, F(3)), D_f), F(weight)), F(100)),
               F(-300), F(300))

\* pid.c:191
OutputLux(PTerm, ITerm, DTerm) ==
    ToInt16(constrain(lrintf(FAdd(FAdd(PTerm, ITerm), DTerm)), -1000, 1000))

\* pid.c:123-204: one pass of the axis loop (dT > 0).
AxisLux(axis, in, hls, acc, lastErr, d1, d2, pState, dState) ==
    LET RateError == RateErrorLux(axis, in, hls)
        PTermRaw == PTermLux(RateError, in.P_f[axis], in.PIDweight[axis])
        pNew == IF in.pterm_cut_hz # 0
                THEN filterApplyPt1(PTermRaw, pState, in.pterm_cut_hz, in.dT)
                ELSE pState
        PTerm == IF in.pterm_cut_hz # 0 THEN pNew ELSE PTermRaw
        accNew == IntegrateLux(acc, RateError, in.dT, in.I_f[axis])
        ITerm == accNew
        delta == FMul(FSub(RateError, lastErr), FDiv(F(1), in.dT))
        sumRaw == FAdd(FAdd(d1, d2), delta)
        dNew == IF in.dterm_cut_hz # 0
                THEN filterApplyPt1(sumRaw, dState, in.dterm_cut_hz, in.dT)
                ELSE dState
        deltaSum == IF in.dterm_cut_hz # 0 THEN dNew ELSE sumRaw
        DTerm == DTermLux(deltaSum, in.D_f[axis], in.PIDweight[axis])
    IN  [RateError |-> RateError, PTerm |-> PTerm, ITerm |-> ITerm, DTerm |-> DTerm,
         errorGyroIf |-> accNew, lastError |-> RateError,
         delta |-> delta, deltaSum |-> deltaSum,
         PTermState |-> pNew, DTermState |-> dNew,
         axisPID |-> OutputLux(PTerm, ITerm, DTerm)]

\* -------------------------------------------------------------------- state
VARIABLES
    pid_controller,  \* pid.c:71   "MWREWRITE" or "LUX_FLOAT"
    errorGyroI,      \* pid.c:62   int32_t[3]
    errorGyroIf,     \* pid.c:63   float[3]
    PTermState,      \* pid.c:86   filter state, float[3]
    DTermState,      \* pid.c:86   filter state, float[3]
    mw_lastError,    \* pid.c:217  static int32_t lastError[3] of pidMultiWiiRewrite
    mw_delta1,       \* pid.c:215
    mw_delta2,       \* pid.c:215
    lux_lastError,   \* pid.c:94   static float lastError[3] of pidLuxFloat
    lux_delta1,      \* pid.c:95
    lux_delta2,      \* pid.c:95
    axisPID,         \* pid.c:53   int16_t[3]
    env,             \* the globals and arguments the last cycle read
    terms,           \* per-axis terms of the last cycle (pid.c:200-202, 322-324)
    lastOp,          \* the entry point that ran last
    prevOp,          \* "reset" when pidResetErrorGyro ran right before lastOp
    lastArg,         \* the argument, when lastOp is a pidSetController call
    cycles,          \* controller cycles run so far
    tick             \* low bit of the scheduler's cycle counter

persist == <<errorGyroI, errorGyroIf, PTermState, DTermState, mw_lastError, mw_delta1,
             mw_delta2, lux_lastError, lux_delta1, lux_delta2>>

vars == <<pid_controller, errorGyroI, errorGyroIf, PTermState, DTermState, mw_lastError,
          mw_delta1, mw_delta2, lux_lastError, lux_delta1, lux_delta2, axisPID, env,
          terms, lastOp, prevOp, lastArg, cycles, tick>>

ZeroI == Vec3(0, 0, 0)
ZeroF == Vec3(FZero, FZero, FZero)

\* ------------------------------------------------------------------- inputs
\* What one cycle reads: the globals rcCommand, gyroADC, gyro.scale, attitude,
\* the flight-mode flags, cycleTime, dT and PIDweight, the two stick deflections
\* getRcStickDeflection returns, and the arguments (profile, rates, maximum
\* inclination).  Quiet is the quiescent craft with the default profile: zero
\* sticks, rates and attitude, both modes off, both cutoffs zero.
Quiet ==
    [rcCommand |-> Vec3(0, 0, 0), gyroADC |-> Vec3(0, 0, 0), attitude |-> Vec3(0, 0, 0),
     rates |-> Vec3(0, 0, 0), angleMode |-> FALSE, horizonMode |-> FALSE,
     stickPosAil |-> 0, stickPosEle |-> 0, max_angle_inclination |-> 500,
     cycleTime |-> 2000, dT |-> Rat(1, 500), gyroScale |-> Rat(1, 16),
     PIDweight |-> Vec3(100, 100, 100),
     P8 |-> Vec3(40, 40, 85), I8 |-> Vec3(30, 30, 45), D8 |-> Vec3(23, 23, 10),
     P8_LEVEL |-> 20, I8_LEVEL |-> 10, D8_LEVEL |-> 100,
     P_f |-> Vec3(Rat(7, 5), Rat(7, 5), Rat(7, 2)),
     I_f |-> Vec3(Rat(2, 5), Rat(2, 5), Rat(2, 5)),
     D_f |-> Vec3(Rat(3, 100), Rat(3, 100), Rat(1, 100)),
     A_level |-> F(5), H_level |-> F(3), H_sensitivity |-> 75,
     pterm_cut_hz |-> 0, dterm_cut_hz |-> 0]

\* Full-scale gyro on roll, a one-count rate error on pitch, and on yaw gyro
\* noise below the integer variant's resolution (gyroADC / 4 = 0).
Hard ==
    [Quiet EXCEPT !.rcCommand = Vec3(500, 1, 0), !.gyroADC = Vec3(-32768, 0, 3)]

\* High I gains, both signs: the integrators saturate within a cycle or two.
Saturating ==
    [Quiet EXCEPT !.I8 = Vec3(255, 255, 255), !.I_f = Vec3(F(20), F(20), F(20)),
                  !.rcCommand = Vec3(500, -500, -500), !.gyroADC = Vec3(-32768, 32767, 0),
                  !.rates = Vec3(10, 10, 10), !.PIDweight = Vec3(100, 50, 100)]

AngleHold ==
    [Quiet EXCEPT !.angleMode = TRUE, !.rcCommand = Vec3(100, -300, 50),
                  !.attitude = Vec3(300, -200, 0)]

Horizon ==
    [Quiet EXCEPT !.horizonMode = TRUE, !.rcCommand = Vec3(100, -40, 0),
                  !.attitude = Vec3(-150, 200, 0), !.gyroADC = Vec3(40, -80, 8),
                  !.stickPosAil = 250, !.stickPosEle = -100]

\* Both low-pass filters on; with pi = 22/7, f_cut = 7 and dT = 1/44 the filter
\* gain dT / (RC + dT) is 1/2.
Filtered ==
    [Quiet EXCEPT !.pterm_cut_hz = 7, !.dterm_cut_hz = 7, !.dT = Rat(1, 44),
                  !.cycleTime = 22727, !.rcCommand = Vec3(200, 0, -100),
                  !.gyroADC = Vec3(-400, 400, 0), !.D8 = Vec3(5, 5, 2)]

\* A cycle time below 16 microseconds.
ShortCycle ==
    [Quiet EXCEPT !.cycleTime = 8, !.gyroADC = Vec3(-400, 0, 400)]

Inputs == {Quiet, Hard, Saturating, AngleHold, Horizon, Filtered, ShortCycle}

\* ------------------------------------------------------------------ actions
\* The state after startup (pid.c:53-71, 86, 94-95, 215-217), the globals a
\* cycle reads being one of inputs.
InitWith(inputs) ==
    /\ pid_controller = "pidMultiWiiRewrite"
    /\ errorGyroI = ZeroI
    /\ errorGyroIf = ZeroF
    /\ PTermState = ZeroF
    /\ DTermState = ZeroF
    /\ mw_lastError = ZeroI
    /\ mw_delta1 = ZeroI
    /\ mw_delta2 = ZeroI
    /\ lux_lastError = ZeroF
    /\ lux_delta1 = ZeroF
    /\ lux_delta2 = ZeroF
    /\ axisPID = ZeroI
    /\ env \in inputs
    /\ terms = [RateError |-> ZeroI, PTerm |-> ZeroI, ITerm |-> ZeroI, DTerm |-> ZeroI,
                delta |-> ZeroI, deltaSum |-> ZeroI, hls |-> 0, divisor |-> 0]
    /\ lastOp = "init"
    /\ prevOp = "other"
    /\ lastArg = "none"
    /\ cycles = 0
    /\ tick = 0

Init == InitWith({Quiet})

\* A division by zero at pid.c:299 that trapped leaves the processor in its
\* fault handler: no entry point runs again.
Running == lastOp # "fault"

Before == IF lastOp = "reset" THEN "reset" ELSE "other"

\* pid.c:73-82
pidResetErrorGyro_keepsFloat ==
    /\ Running
    /\ errorGyroI' = ZeroI
    /\ lastOp' = "reset"
    /\ prevOp' = Before
    /\ lastArg' = "none"
    /\ UNCHANGED <<pid_controller, errorGyroIf, PTermState, DTermState, mw_lastError,
                   mw_delta1, mw_delta2, lux_lastError, lux_delta1, lux_delta2, axisPID,
                   env, terms, cycles, tick>>

pidResetErrorGyro_missesYaw ==
    /\ Running
    /\ errorGyroI' = [errorGyroI EXCEPT ![ROLL] = 0, ![PITCH] = 0]
    /\ errorGyroIf' = ZeroF
    /\ lastOp' = "reset"
    /\ prevOp' = Before
    /\ lastArg' = "none"
    /\ UNCHANGED <<pid_controller, PTermState, DTermState, mw_lastError, mw_delta1,
                   mw_delta2, lux_lastError, lux_delta1, lux_delta2, axisPID, env, terms,
                   cycles, tick>>

pidResetErrorGyro ==
    /\ Running
    /\ errorGyroI' = ZeroI
    /\ errorGyroIf' = ZeroF
    /\ lastOp' = "reset"
    /\ prevOp' = Before
    /\ lastArg' = "none"
    /\ UNCHANGED <<pid_controller, PTermState, DTermState, mw_lastError, mw_delta1,
                   mw_delta2, lux_lastError, lux_delta1, lux_delta2, axisPID, env, terms,
                   cycles, tick>>

\* pid.c:329-340
ControllerTypes == {"PID_CONTROLLER_MWREWRITE", "PID_CONTROLLER_LUX_FLOAT", "PID_COUNT"}

pidSetController_resetsIntegrators(type) ==
    /\ Running
    /\ pid_controller' = IF type = "PID_CONTROLLER_LUX_FLOAT" THEN "pidLuxFloat"
                         ELSE "pidMultiWiiRewrite"
    /\ errorGyroI' = ZeroI
    /\ errorGyroIf' = ZeroF
    /\ lastOp' = "set"
    /\ prevOp' = Before
    /\ lastArg' = type
    /\ UNCHANGED <<PTermState, DTermState, mw_lastError, mw_delta1, mw_delta2,
                   lux_lastError, lux_delta1, lux_delta2, axisPID, env, terms, cycles,
                   tick>>

pidSetController(type) ==
    /\ Running
    /\ pid_controller' = IF type = "PID_CONTROLLER_LUX_FLOAT" THEN "pidLuxFloat"
                         ELSE "pidMultiWiiRewrite"
    /\ lastOp' = "set"
    /\ prevOp' = Before
    /\ lastArg' = type
    /\ UNCHANGED <<persist, axisPID, env, terms, cycles, tick>>

\* pid.c:220-242: the horizon strength a cycle of the integer variant uses.
StrengthMW(in) ==
    IF in.horizonMode
    THEN HorizonStrengthMW(MostDeflectedPos(in.stickPosAil, in.stickPosEle), in.D8_LEVEL)
    ELSE 100

\* pid.c:245-326: the three passes of the axis loop on the current state.  A
\* zero divisor at pid.c:299 that does not trap yields a zero quotient.
AxesMW(in) ==
    LET hls == StrengthMW(in)
        div == DeltaDivisorMW(in.cycleTime)
        quot == IF div = 0 THEN 0 ELSE 65535 \div div
        rr == AxisMW(ROLL, in, hls, quot, errorGyroI[ROLL], mw_lastError[ROLL],
                     mw_delta1[ROLL], mw_delta2[ROLL], PTermState[ROLL], DTermState[ROLL])
        rp == AxisMW(PITCH, in, hls, quot, errorGyroI[PITCH], mw_lastError[PITCH],
                     mw_delta1[PITCH], mw_delta2[PITCH], PTermState[PITCH],
                     DTermState[PITCH])
        ry == AxisMW(YAW, in, hls, quot, errorGyroI[YAW], mw_lastError[YAW],
                     mw_delta1[YAW], mw_delta2[YAW], PTermState[YAW], DTermState[YAW])
    IN  <<rr, rp, ry>>

\* The per-axis values of field f as an array.
Field(r, f) == Vec3(r[1][f], r[2][f], r[3][f])

\* pid.c:207-327: a cycle of the integer variant reading the inputs in.  When
\* cycleTime >> 4 is zero the division at pid.c:299 is undefined: the
\* processor either traps (on the first axis, after pid.c:295) or yields a
\* zero quotient and goes on.
pidMultiWiiRewrite(in) ==
    /\ Running
    /\ pid_controller = "pidMultiWiiRewrite"
    /\ env' = in
    /\ prevOp' = Before
    /\ tick' = 1 - tick
    /\ \E r \in {AxesMW(in)}, div \in {DeltaDivisorMW(in.cycleTime)} :
       \E trap \in (IF div = 0 THEN BOOLEAN ELSE {FALSE}) :
           IF trap
           THEN /\ errorGyroI' = [errorGyroI EXCEPT ![ROLL] = r[1].errorGyroI]
                /\ mw_lastError' = [mw_lastError EXCEPT ![ROLL] = r[1].lastError]
                /\ PTermState' = [PTermState EXCEPT ![ROLL] = r[1].PTermState]
                /\ terms' = [terms EXCEPT !.hls = StrengthMW(in), !.divisor = div]
                /\ lastOp' = "fault"
                /\ UNCHANGED <<DTermState, mw_delta1, mw_delta2, axisPID>>
           ELSE /\ errorGyroI' = Field(r, "errorGyroI")
                /\ mw_lastError' = Field(r, "lastError")
                /\ mw_delta2' = mw_delta1
                /\ mw_delta1' = Field(r, "delta")
                /\ PTermState' = Field(r, "PTermState")
                /\ DTermState' = Field(r, "DTermState")
                /\ axisPID' = Field(r, "axisPID")
                /\ terms' = [RateError |-> Field(r, "RateError"),
                             PTerm |-> Field(r, "PTerm"),
                             ITerm |-> Field(r, "ITerm"),
                             DTerm |-> Field(r, "DTerm"),
                             delta |-> Field(r, "delta"),
                             deltaSum |-> Field(r, "deltaSum"),
                             hls |-> StrengthMW(in), divisor |-> div]
                /\ lastOp' = "mw"
    /\ lastArg' = "none"
    /\ UNCHANGED <<pid_controller, errorGyroIf, lux_lastError, lux_delta1, lux_delta2>>

\* pid.c:98-120: the horizon strength a cycle of the float variant uses.
StrengthLux(in) ==
    IF in.horizonMode
    THEN HorizonStrengthLux(MostDeflectedPos(in.stickPosAil, in.stickPosEle),
                            in.H_sensitivity)
    ELSE F(1)

\* pid.c:123-204: the three passes of the axis loop on the current state.
AxesLux(in) ==
    LET hls == StrengthLux(in)
        rr == AxisLux(ROLL, in, hls, errorGyroIf[ROLL], lux_lastError[ROLL],
                      lux_delta1[ROLL], lux_delta2[ROLL], PTermState[ROLL],
                      DTermState[ROLL])
        rp == AxisLux(PITCH, in, hls, errorGyroIf[PITCH], lux_lastError[PITCH],
                      lux_delta1[PITCH], lux_delta2[PITCH], PTermState[PITCH],
                      DTermState[PITCH])
        ry == AxisLux(YAW, in, hls, errorGyroIf[YAW], lux_lastError[YAW],
                      lux_delta1[YAW], lux_delta2[YAW], PTermState[YAW], DTermState[YAW])
    IN  <<rr, rp, ry>>

\* pid.c:88-205: a cycle of the float variant reading the inputs in.
pidLuxFloat(in) ==
    /\ Running
    /\ pid_controller = "pidLuxFloat"
    /\ env' = in
    /\ prevOp' = Before
    /\ tick' = 1 - tick
    /\ \E r \in {AxesLux(in)} :
        /\ errorGyroIf' = Field(r, "errorGyroIf")
        /\ lux_lastError' = Field(r, "lastError")
        /\ lux_delta2' = lux_delta1
        /\ lux_delta1' = Field(r, "delta")
        /\ PTermState' = Field(r, "PTermState")
        /\ DTermState' = Field(r, "DTermState")
        /\ axisPID' = Field(r, "axisPID")
        /\ terms' = [RateError |-> Field(r, "RateError"),
                     PTerm |-> Field(r, "PTerm"),
                     ITerm |-> Field(r, "ITerm"),
                     DTerm |-> Field(r, "DTerm"),
                     delta |-> Field(r, "delta"),
                     deltaSum |-> Field(r, "deltaSum"),
                     hls |-> StrengthLux(in), divisor |-> terms.divisor]
    /\ lastOp' = "lux"
    /\ lastArg' = "none"
    /\ UNCHANGED <<pid_controller, errorGyroI, mw_lastError, mw_delta1, mw_delta2>>

\* The scheduler's cycle: fresh inputs, then the selected controller.
CycleMW == \E in \in Inputs :
    cycles < MaxCycles /\ cycles' = cycles + 1 /\ pidMultiWiiRewrite(in)

CycleLux == \E in \in Inputs :
    cycles < MaxCycles /\ cycles' = cycles + 1 /\ pidLuxFloat(in)

SetController == \E type \in ControllerTypes : pidSetController(type)

Next == CycleMW \/ CycleLux \/ pidResetErrorGyro \/ SetController

Spec == Init /\ [][Next]_vars

\* ------------------------------------------------- cycles on held inputs
\* The scheduler's cycle when the globals did not change since the last one.
HeldMW == cycles < MaxCycles /\ cycles' = cycles + 1 /\ pidMultiWiiRewrite(env)

HeldLux == cycles < MaxCycles /\ cycles' = cycles + 1 /\ pidLuxFloat(env)

NextHeld == HeldMW \/ HeldLux \/ SetController

\* Horizon mode over the stick deflections and sensitivity settings; the one
\* setting is used for D8[PIDLEVEL] and for H_sensitivity.
HorizonWith(ail, ele, sens) ==
    [Horizon EXCEPT !.stickPosAil = ail, !.stickPosEle = ele,
                    !.D8_LEVEL = sens, !.H_sensitivity = sens]

\* ail over every deflection for the settings in dense, every setting for a
\* few stick positions.
HorizonInputs(dense) ==
    {HorizonWith(st[1], st[2], sens) :
        st \in {<<0, 0>>, <<250, -100>>, <<-500, 0>>, <<100, 500>>, <<499, 0>>},
        sens \in 0..255}
    \cup {HorizonWith(ail, 0, sens) : ail \in 0..FullStick, sens \in dense}

SpecHorizon == InitWith(HorizonInputs({0, 80, 100})) /\ [][NextHeld]_vars

\* Every 16-bit cycle time, the integer variant only.
CycleTimeInputs(cts) == {[ShortCycle EXCEPT !.cycleTime = ct] : ct \in cts}

SpecCycleTime == InitWith(CycleTimeInputs(0..65535)) /\ [][HeldMW]_vars

\* Derivative history: cycles of the integer variant alone, a few deep.
MaxDCycles == 4

DInputs == {Quiet, Hard, Saturating, Filtered}

CycleD == \E in \in DInputs :
    cycles < MaxDCycles /\ cycles' = cycles + 1 /\ pidMultiWiiRewrite(in)

SpecDTerm == Init /\ [][CycleD]_vars

\* Sustained inputs: the integer variant runs cycle after cycle on the same
\* globals; the scheduler calls the controller in every cycle, forever.
SustainInputs(gains) ==
    {[Quiet EXCEPT !.rcCommand = Vec3(rc, 1, -rc), !.gyroADC = Vec3(g, 0, -(g + 1)),
                   !.I8 = Vec3(i, i, i)] :
        rc \in {0, 500}, g \in {-32768, -4000, 400}, i \in gains}

SustainMW == pidMultiWiiRewrite(env) /\ UNCHANGED cycles

SpecSustain == InitWith(SustainInputs({0, 30, 255})) /\ [][SustainMW]_vars /\ WF_vars(SustainMW)

\* ------------------------------------------------------------------ claims
FIsZero(a) == a[1] = 0

\* A controller cycle ran to completion and was the last entry point to run.
AfterCycle == lastOp \in {"mw", "lux"}

\* C1: after any controller cycle of either variant each of the three axisPID
\* outputs lies in [-1000, 1000].  (pid.c:313 stores the integer variant's sum
\* unclamped.)
C1_OutputWithinRange ==
    AfterCycle => \A a \in Axes : axisPID[a] >= -1000 /\ axisPID[a] <= 1000

\* C2: in every reachable state each integer integrator has magnitude at most
\* GYRO_I_MAX << 13 and each float integrator magnitude at most 250, and the
\* integral term a cycle consumed is computed from the clamped accumulator.
C2_IntegratorsWithinWindupLimit ==
    /\ \A a \in Axes : ABS(errorGyroI[a]) <= GYRO_I_MAX * 2 ^ 13
    /\ \A a \in Axes : /\ ~FLess(F(250), errorGyroIf[a])
                       /\ ~FLess(errorGyroIf[a], F(-250))
    /\ lastOp = "mw" => \A a \in Axes : terms.ITerm[a] = errorGyroI[a] \div 2 ^ 13
    /\ lastOp = "lux" => \A a \in Axes : terms.ITerm[a] = errorGyroIf[a]

\* Both integer clamps and a float clamp are active at once.
C2_Witness ==
    /\ lastOp = "mw"
    /\ errorGyroI[ROLL] = GYRO_I_MAX * 2 ^ 13
    /\ errorGyroI[PITCH] = -(GYRO_I_MAX * 2 ^ 13)
    /\ terms.ITerm[ROLL] = GYRO_I_MAX
    /\ errorGyroIf[ROLL] = F(250)
    /\ errorGyroIf[PITCH] = F(-250)

\* C3: pidResetErrorGyro zeroes errorGyroI and errorGyroIf on all axes, and a
\* cycle of either variant that sees a zero rate error on an axis whose
\* accumulators are zero leaves them zero and consumes a zero integral term
\* (so they stay zero from a reset for as long as the axis's error is zero).
C3_ResetZeroesAndZeroErrorKeepsZero ==
    [][/\ lastOp' = "reset" => errorGyroI' = ZeroI /\ errorGyroIf' = ZeroF
       /\ \A a \in Axes :
            (/\ tick' # tick
             /\ errorGyroI[a] = 0
             /\ FIsZero(errorGyroIf[a])
             /\ \/ lastOp' = "mw" /\ terms'.RateError[a] = 0
                \/ lastOp' = "lux" /\ FIsZero(terms'.RateError[a]))
            => /\ errorGyroI'[a] = 0
               /\ FIsZero(errorGyroIf'[a])
               /\ lastOp' = "mw" => terms'.ITerm[a] = 0
               /\ lastOp' = "lux" => FIsZero(terms'.ITerm[a])]_vars

\* A cycle right after a reset whose yaw error is zero, yaw having had a
\* nonzero error (hence a nonzero accumulator) in the cycle before the reset.
C3_Witness ==
    /\ lastOp = "mw"
    /\ prevOp = "reset"
    /\ terms.RateError[YAW] = 0
    /\ terms.delta[YAW] # 0
    /\ errorGyroI[YAW] = 0
    /\ terms.ITerm[YAW] = 0
    /\ errorGyroI[ROLL] # 0

\* C5: pidSetController changes only which controller later cycles invoke:
\* both integrator arrays, both variants' last error and derivative history,
\* both filter states and axisPID are unchanged; an argument other than
\* PID_CONTROLLER_LUX_FLOAT selects the integer variant, which is also the one
\* selected at startup.
C5_SetControllerOnlySelects ==
    /\ pid_controller = "pidMultiWiiRewrite"
    /\ [][lastOp' = "set" =>
            /\ UNCHANGED <<errorGyroI, errorGyroIf, mw_lastError, mw_delta1, mw_delta2,
                           lux_lastError, lux_delta1, lux_delta2, PTermState, DTermState,
                           axisPID>>
            /\ pid_controller' = IF lastArg' = "PID_CONTROLLER_LUX_FLOAT"
                                 THEN "pidLuxFloat" ELSE "pidMultiWiiRewrite"]_vars

\* An unknown type selected the integer variant while integrators, filter
\* state, derivative history and output were all nonzero.
C5_Witness ==
    /\ lastOp = "set"
    /\ lastArg = "PID_COUNT"
    /\ pid_controller = "pidMultiWiiRewrite"
    /\ errorGyroI[ROLL] # 0
    /\ ~FIsZero(errorGyroIf[ROLL])
    /\ ~FIsZero(PTermState[ROLL])
    /\ ~FIsZero(DTermState[ROLL])
    /\ mw_lastError[ROLL] # 0
    /\ ~FIsZero(lux_delta1[ROLL])
    /\ axisPID[ROLL] # 0

\* The larger stick deflection the last cycle saw.
EnvDeflection == MostDeflectedPos(env.stickPosAil, env.stickPosEle)

\* C4: in the integer variant, with the same nonzero rate error in every
\* cycle, a nonzero cycle time and a nonzero I gain, the axis's accumulator
\* eventually reaches its windup limit, with the sign of the error, and stays
\* there.
C4_SustainedErrorSaturates ==
    \A a \in Axes :
        LET e == RateErrorMW(a, env, StrengthMW(env))
        IN  (e # 0 /\ env.I8[a] # 0 /\ env.cycleTime # 0)
            => <>[](errorGyroI[a] = (IF e > 0 THEN 1 ELSE -1) * GYRO_I_MAX * 2 ^ 13)

\* C6 as claimed: in horizon mode a zero sensitivity gives a zero horizon
\* strength for every stick deflection, in both variants.
C6_ZeroSensitivityZeroStrength ==
    /\ (lastOp = "mw" /\ env.horizonMode /\ env.D8_LEVEL = 0) => terms.hls = 0
    /\ (lastOp = "lux" /\ env.horizonMode /\ env.H_sensitivity = 0) => FIsZero(terms.hls)

\* C6 as the code has it: with H_sensitivity zero the float variant's
\* strength is zero for every deflection and roll and pitch get the pure rate
\* command; with D8[PIDLEVEL] zero the integer variant's strength is 100 for
\* every deflection (pid.c:239, "0 more level").
C6_ZeroSensitivityPerVariant ==
    /\ (lastOp = "lux" /\ env.horizonMode /\ env.H_sensitivity = 0)
       => /\ FIsZero(terms.hls)
          /\ \A a \in {ROLL, PITCH} :
                terms.RateError[a]
                = FSub(Rat((env.rates[a] + 20) * env.rcCommand[a], 50),
                       FMul(F(env.gyroADC[a]), env.gyroScale))
    /\ (lastOp = "mw" /\ env.horizonMode /\ env.D8_LEVEL = 0) => terms.hls = 100

\* The float variant at centre stick, tilted, sensitivity zero.
C6_Witness ==
    /\ lastOp = "lux"
    /\ env.horizonMode
    /\ env.H_sensitivity = 0
    /\ EnvDeflection = 0
    /\ env.attitude[ROLL] # 0
    /\ FIsZero(terms.hls)

\* C7 as claimed: in horizon mode, for every nonzero sensitivity and in both
\* variants, the strength is maximal (100, 1.0) at deflection 0, zero at the
\* full-stick deflection 500, and always within [0, max].
C7_StrengthMaxAtCentreZeroAtFullStick ==
    /\ (lastOp = "mw" /\ env.horizonMode /\ env.D8_LEVEL # 0)
       => /\ EnvDeflection = 0 => terms.hls = 100
          /\ EnvDeflection = FullStick => terms.hls = 0
          /\ terms.hls >= 0 /\ terms.hls <= 100
    /\ (lastOp = "lux" /\ env.horizonMode /\ env.H_sensitivity # 0)
       => /\ EnvDeflection = 0 => terms.hls = F(1)
          /\ EnvDeflection = FullStick => FIsZero(terms.hls)
          /\ ~FLess(terms.hls, FZero) /\ ~FLess(F(1), terms.hls)

\* C7 as the code has it: maximal at deflection 0 and within [0, max] for
\* every nonzero sensitivity; at full stick the strength is zero exactly when
\* D8[PIDLEVEL] >= 80 (integer variant) or H_sensitivity <= 100 (float
\* variant).
C7_StrengthMaxAtCentreZeroAtFullStickBySensitivity ==
    /\ (lastOp = "mw" /\ env.horizonMode /\ env.D8_LEVEL # 0)
       => /\ EnvDeflection = 0 => terms.hls = 100
          /\ EnvDeflection = FullStick => (terms.hls = 0 <=> env.D8_LEVEL >= 80)
          /\ terms.hls >= 0 /\ terms.hls <= 100
    /\ (lastOp = "lux" /\ env.horizonMode /\ env.H_sensitivity # 0)
       => /\ EnvDeflection = 0 => terms.hls = F(1)
          /\ EnvDeflection = FullStick
             => (FIsZero(terms.hls) <=> env.H_sensitivity <= 100)
          /\ ~FLess(terms.hls, FZero) /\ ~FLess(F(1), terms.hls)

\* Full stick with a low sensitivity: the integer variant keeps 90 of 100.
C7_Witness ==
    /\ lastOp = "mw"
    /\ env.horizonMode
    /\ env.D8_LEVEL = 8
    /\ EnvDeflection = FullStick
    /\ terms.hls = 90

\* The scenario of C8: zero sticks, gyro rates and attitude, both modes off,
\* both cutoffs zero.
QuietScenario(in) ==
    /\ in.rcCommand = ZeroI
    /\ in.gyroADC = ZeroI
    /\ in.attitude = ZeroI
    /\ ~in.angleMode
    /\ ~in.horizonMode
    /\ in.pterm_cut_hz = 0
    /\ in.dterm_cut_hz = 0

\* C8 as claimed: in any state reached by earlier cycles, a cycle of the
\* integer variant run right after pidResetErrorGyro on the quiet scenario
\* leaves axisPID zero on all three axes.
C8_QuietCycleAfterResetIsZero ==
    [][(lastOp = "reset" /\ lastOp' = "mw" /\ QuietScenario(env'))
       => axisPID' = ZeroI]_vars

\* C8 as the code has it: such a cycle (cycleTime >= 16) has zero P and I
\* terms on every axis and its output is the D term alone, int16(DTerm), which
\* the derivative history left by earlier cycles decides; the output is zero
\* when lastError, delta1 and delta2 are zero, as at startup.
C8_QuietCycleAfterResetIsDTermOnly ==
    [][(lastOp = "reset" /\ lastOp' = "mw" /\ QuietScenario(env')
        /\ env'.cycleTime >= 16)
       => /\ \A a \in Axes : /\ terms'.PTerm[a] = 0
                             /\ terms'.ITerm[a] = 0
                             /\ axisPID'[a] = ToInt16(terms'.DTerm[a])
          /\ (mw_lastError = ZeroI /\ mw_delta1 = ZeroI /\ mw_delta2 = ZeroI)
             => axisPID' = ZeroI]_vars

\* A quiet cycle right after a reset, two cycles in, the float variant having
\* left its own history and output behind, the integer history being zero.
C8_Witness ==
    /\ lastOp = "mw"
    /\ prevOp = "reset"
    /\ cycles >= 2
    /\ QuietScenario(env)
    /\ ~FIsZero(lux_lastError[ROLL])
    /\ mw_delta1 = ZeroI
    /\ mw_delta2 = ZeroI
    /\ axisPID = ZeroI

C10_OnlyZeroCycleTimeDividesByZero ==
    (lastOp \in {"mw", "fault"} /\ env.cycleTime >= 1)
    => (terms.divisor # 0 /\ lastOp = "mw")

\* C10 as the code has it: the divisor is cycleTime >> 4, nonzero exactly for
\* cycleTime in 16..65535; every cycleTime in 0..15 divides by zero.
C10_CycleTimeBelow16DividesByZero ==
    /\ (lastOp \in {"mw", "fault"} /\ env.cycleTime >= 16)
       => (terms.divisor # 0 /\ lastOp = "mw")
    /\ (lastOp \in {"mw", "fault"} /\ env.cycleTime < 16) => terms.divisor = 0

\* The smallest cycle time with a nonzero divisor, after a completed cycle.
C10_Witness ==
    /\ lastOp = "mw"
    /\ env.cycleTime = 16
    /\ terms.divisor = 1
    /\ terms.delta[ROLL] # 0

=============================================================================
